---- MODULE Spec2Model ----
(***************************************************************************)
(* Atlas trade decision pipeline: the order store and its approval         *)
(* handler, the market-data cache (MongoDB collection market_data_cache)   *)
(* and getMarketData / callMarketDataTool, the agent orchestrator          *)
(* (runOrchestratorAgent) and its text parsing.                            *)
(*                                                                         *)
(* Money is kept in cents, percentages in hundredths of a percent and      *)
(* time in milliseconds, so that the code's rounding to two decimals and   *)
(* its 15-minute window are exact integer computations.                    *)
(***************************************************************************)
EXTENDS Integers, Sequences, FiniteSets, TLC

VARIABLES
    \* ---- order store (Supabase table orders) and its callers
    orders,      \* the orders table: id of each inserted row -> the row
    ordHist,     \* order id -> the statuses the row has had, oldest first
    approveReq,  \* request slot -> state of one POST "approve" handler
    rejected,    \* the kinds of transition request the store has refused so far
    approvals,   \* order id -> the approvals the store accepted, in order
    auditLog,    \* set of audit log entries written by the approve handler
    origin,      \* order id -> the run output the row was created from
    \* ---- market data cache (MongoDB market_data_cache) and getMarketData
    now,         \* Date.now(), in milliseconds
    cacheDocs,   \* the documents of market_data_cache, in insertion order
    call,        \* caller -> its callMarketDataTool invocation in progress
    lastCall,    \* the invocation that completed last, and what it returned
    \* ---- agent orchestrator (runOrchestratorAgent) and the trace store
    run,         \* the run of runOrchestratorAgent in progress, or its output
    agentRuns,   \* the documents of the MongoDB collection agent_runs
    \* ---- the pure functions, applied to one drawn input
    probe        \* the input drawn and, once applied, the function's result

cvars == <<now, cacheDocs, call, lastCall>>

ovars == <<orders, ordHist, approveReq, rejected, approvals, auditLog, origin>>

rvars == <<run, agentRuns>>

pvars == <<probe>>

vars == <<ovars, cvars, rvars, pvars>>

---------------------------------------------------------------------------
(* Bounds of the model *)

MaxOrders == 1
MaxDocs == 2
MaxLen == 4

---------------------------------------------------------------------------
(* Order store: types *)

Null == "null"
NoTime == 0 - 1

OrderIds == 1..MaxOrders
Owners == {"u1"}
Users == {"u1", "u2"}
Reqs == {"r1", "r2"}

OrderStatus ==
    {"proposed", "approved", "submitted", "filled", "rejected", "cancelled", "failed"}

isFilledOrder(order) == order.status = "filled"

isPendingOrder_WithFilled(order) ==
    order.status \in {"proposed", "approved", "submitted", "filled"}

isPendingOrder(order) == order.status \in {"proposed", "approved", "submitted"}

\* The terminal statuses of the lifecycle (spec 4.6).
Terminal == {"filled", "rejected", "cancelled", "failed"}

\* Row Level Security, policy "Users can update their own orders": a user's
\* UPDATE sees only the rows whose user_id is theirs; the service role
\* ("system", the broker-execution side) bypasses the policies.
RlsAllowsUpdate(actor, row) == actor = "system" \/ row.user_id = actor

\* The OrderLifecycle transition table (spec 4.6).
ValidTransition_SkipApproval(from, to) ==
    \/ from = "proposed" /\ to \in {"approved", "rejected", "submitted"}
    \/ from = "approved" /\ to = "submitted"
    \/ from = "submitted" /\ to = "filled"
    \/ isPendingOrder([status |-> from]) /\ to \in {"cancelled", "failed"}

ValidTransition_Reapprove(from, to) ==
    \/ from \in {"proposed", "approved"} /\ to = "approved"
    \/ from = "proposed" /\ to = "rejected"
    \/ from = "approved" /\ to = "submitted"
    \/ from = "submitted" /\ to = "filled"
    \/ isPendingOrder([status |-> from]) /\ to \in {"cancelled", "failed"}

ValidTransition_FillApproved(from, to) ==
    \/ from = "proposed" /\ to \in {"approved", "rejected"}
    \/ from = "approved" /\ to \in {"submitted", "filled"}
    \/ from = "submitted" /\ to = "filled"
    \/ isPendingOrder([status |-> from]) /\ to \in {"cancelled", "failed"}

ValidTransition(from, to) ==
    \/ from = "proposed" /\ to \in {"approved", "rejected"}
    \/ from = "approved" /\ to = "submitted"
    \/ from = "submitted" /\ to = "filled"
    \/ isPendingOrder([status |-> from]) /\ to \in {"cancelled", "failed"}

\* approved needs an approver id and a timestamp, rejected needs a reason.
RequiredFields(data) ==
    /\ data.status = "approved" => data.approved_by # Null /\ data.approved_at # NoTime
    /\ data.status = "rejected" => data.reason # Null

\* The columns an update carries; Null is a column the update leaves alone.
UpdateData(status, by, at, reason) ==
    [status |-> status, approved_by |-> by, approved_at |-> at, reason |-> reason]

Merge(row, data) ==
    [row EXCEPT !.status = data.status,
                !.approved_by = IF data.approved_by # Null THEN data.approved_by ELSE @,
                !.approved_at = IF data.approved_at # NoTime THEN data.approved_at ELSE @,
                !.reason = IF data.reason # Null THEN data.reason ELSE @]

\* updateOrder(orderId, data): one conditional write on the row's current
\* status; the row is written only when the transition is in the table.
\* The result carries the table after the call.
updateOrder(actor, table, id, data) ==
    IF id \notin DOMAIN table \/ ~RlsAllowsUpdate(actor, table[id])
    THEN [result |-> "NotFound", table |-> table]
    ELSE IF ValidTransition(table[id].status, data.status) /\ RequiredFields(data)
         THEN [result |-> "ok", table |-> [table EXCEPT ![id] = Merge(@, data)]]
         ELSE [result |-> "InvalidTransition", table |-> table]

\* The data the approve handler sends: status, approved_at: new Date(),
\* approved_by: userId.
ApproveData_WrongApprover(userId, at) == UpdateData("approved", "system", at, Null)

ApproveData(userId, at) == UpdateData("approved", userId, at, Null)

---------------------------------------------------------------------------
(* Agent orchestrator: reply parsing and the run's output *)

\* What the three regular expressions of parseAgentResponse matched in the
\* reply: the action word as written (any letter case) or Null, the number
\* after "Confidence:" in hundredths or NoNum, the integer after "Quantity:"
\* or NoNum.
NoNum == 0 - 1

ToUpperAction(w) ==
    CASE w \in {"BUY", "buy"} -> "BUY"
      [] w \in {"SELL", "sell"} -> "SELL"
      [] w \in {"HOLD", "hold"} -> "HOLD"

ToLowerAction(a) ==
    CASE a = "BUY" -> "buy"
      [] a = "SELL" -> "sell"
      [] a = "HOLD" -> "hold"

\* action === 'BUY' || action === 'SELL'
IsTradeAction_WithHold(action) == action \in {"BUY", "SELL", "HOLD"}

IsTradeAction(action) == action \in {"BUY", "SELL"}

\* 'UNKNOWN', as a sequence of characters like every symbol
UNKNOWN == <<"U", "N", "K", "N", "O", "W", "N">>

StopLoss_BuyAbove(action, currentPrice) == currentPrice * 105

\* stop_loss: currentPrice * 0.95 (BUY) or * 1.05 (SELL), in 1/10000 dollar
\* for a price in cents.
StopLoss(action, currentPrice) ==
    IF action = "BUY" THEN currentPrice * 95 ELSE currentPrice * 105

\* target_price: currentPrice * 1.1 (BUY) or * 0.9 (SELL).
TargetPrice(action, currentPrice) ==
    IF action = "BUY" THEN currentPrice * 110 ELSE currentPrice * 90

\* resp is what the three matches gave (Matches); marketData is the result of
\* the get_market_data ToolCall.  Prices of a proposal are in 1/10000 dollar
\* (cents * 100), confidence in 1/10000.
parseAgentResponse(resp, marketData) ==
    LET action == IF resp.action = Null THEN "HOLD" ELSE ToUpperAction(resp.action)
        confidence == IF resp.confidence = NoNum THEN 50 ELSE resp.confidence
        normalizedConfidence == IF confidence > 100 THEN confidence ELSE confidence * 100
        quantity == IF resp.quantity = NoNum THEN 10 ELSE resp.quantity
        currentPrice == IF "current_price" \in DOMAIN marketData
                        THEN marketData.current_price ELSE 10000
    IN  [proposal |->
            IF IsTradeAction(action)
            THEN << [action |-> action,
                     symbol |-> IF "symbol" \in DOMAIN marketData
                                THEN marketData.symbol ELSE UNKNOWN,
                     quantity |-> quantity,
                     entry_price |-> currentPrice * 100,
                     stop_loss |-> StopLoss(action, currentPrice),
                     target_price |-> TargetPrice(action, currentPrice),
                     confidence |-> normalizedConfidence,
                     holding_window |-> "3-7 days"] >>
            ELSE << >>]

NoSymbol_Never(symbol) == FALSE

\* if (!symbol): extractSymbol returned null (<< >>).
NoSymbol(symbol) == symbol = << >>

\* The output of one run, from what its steps met: the extracted symbol (or
\* << >> for null), the snapshot, whether the reasoning engine answered, and its reply.
\* proposal is << >> (none) or <<p>>.
runOrchestratorAgent(symbol, marketData, geminiOk, resp) ==
    IF NoSymbol(symbol)
    THEN [status |-> "ERROR", proposal |-> << >>,
          error |-> "No symbol found in user intent"]
    ELSE IF ~geminiOk
         THEN [status |-> "ERROR", proposal |-> << >>, error |-> "reasoning engine"]
         ELSE LET parsed == parseAgentResponse(resp, marketData)
              IN  [status |-> IF parsed.proposal # << >> THEN "COMPLETED" ELSE "PROPOSING",
                   proposal |-> parsed.proposal,
                   error |-> Null]

---------------------------------------------------------------------------
(* Order store: the route handlers *)

\* The row createOrder is given by the analyze route.
NewOrderRow(userId, proposal) ==
    [user_id |-> userId,
     symbol |-> proposal.symbol,
     side |-> ToLowerAction(proposal.action),
     quantity |-> proposal.quantity,
     status |-> "proposed",
     approved_by |-> Null,
     approved_at |-> NoTime,
     reason |-> Null]

FreeIds == OrderIds \ DOMAIN orders

NextId == CHOOSE i \in FreeIds : \A j \in FreeIds : i <= j

\* if (result.proposal) { await createOrder({...}) }
CreatesOrder_Always(result) == TRUE

CreatesOrder(result) == result.proposal # << >>

Extend(f, k, v) == [x \in DOMAIN f \cup {k} |-> IF x = k THEN v ELSE f[x]]

RunSymbols == {<< >>, <<"N", "V", "D", "A">>}
RunPrices == {10000}
ReplyActions == {Null, "BUY", "sell", "HOLD"}

\* POST analyze: runs the agent and, if the run returned a proposal, inserts
\* the order.
AnalyzeInputs ==
    [symbol : RunSymbols, price : RunPrices, geminiOk : BOOLEAN, action : ReplyActions]

RunOf(in) ==
    runOrchestratorAgent(in.symbol,
                         [current_price |-> in.price],
                         in.geminiOk,
                         [action |-> in.action, confidence |-> 78, quantity |-> NoNum])

AnalyzeRoute(userId) ==
    /\ \E in \in AnalyzeInputs :
           LET result == RunOf(in)
           IN  IF CreatesOrder(result)
               THEN /\ FreeIds # {}
                    /\ LET row == NewOrderRow(userId, result.proposal[1])
                       IN  /\ orders' = Extend(orders, NextId, row)
                           /\ ordHist' = Extend(ordHist, NextId, <<row.status>>)
                           /\ approvals' = Extend(approvals, NextId, << >>)
                           /\ origin' = Extend(origin, NextId, result)
               ELSE UNCHANGED <<orders, ordHist, approvals, origin>>
    /\ UNCHANGED <<approveReq, rejected, auditLog, cvars, rvars, pvars>>

\* What a refused request was about: a row in a terminal status, or a step
\* from approved back to proposed.
RejectionKind(id, data, res) ==
    IF res.result = "InvalidTransition"
    THEN {k \in {"terminal", "approved_to_proposed"} :
            \/ k = "terminal" /\ orders[id].status \in Terminal
            \/ k = "approved_to_proposed" /\ orders[id].status = "approved"
                                          /\ data.status = "proposed"}
    ELSE {}

\* One call of updateOrder against the table, with what the caller is told.
StoreUpdate(actor, id, data, res) ==
    /\ res = updateOrder(actor, orders, id, data)
    /\ orders' = res.table
    /\ ordHist' = IF res.result = "ok"
                  THEN [ordHist EXCEPT ![id] = Append(@, res.table[id].status)]
                  ELSE ordHist
    /\ approvals' = IF res.result = "ok" /\ data.status = "approved"
                    THEN [approvals EXCEPT ![id] = Append(@, data)]
                    ELSE approvals
    /\ rejected' = rejected \cup RejectionKind(id, data, res)

IdleReq == [pc |-> "idle", user |-> Null, order |-> 0, at |-> NoTime]

\* POST approve, entry: the request body names the order, auth() the user.
ApproveStart(r, userId, orderId) ==
    /\ approveReq[r].pc = "idle"
    /\ approveReq' = [approveReq EXCEPT ![r] =
           [pc |-> "update", user |-> userId, order |-> orderId, at |-> NoTime]]
    /\ UNCHANGED <<orders, ordHist, rejected, approvals, auditLog, origin, cvars, rvars, pvars>>

\* The instants new Date() can give a handler.
Times == {1, 2}

\* POST approve, the awaited updateOrder; a failed update throws out of the
\* handler.
ApproveUpdate(r) ==
    /\ approveReq[r].pc = "update"
    /\ \E at \in Times :
        \E res \in {updateOrder(approveReq[r].user, orders, approveReq[r].order,
                                ApproveData(approveReq[r].user, at))} :
            /\ StoreUpdate(approveReq[r].user, approveReq[r].order,
                           ApproveData(approveReq[r].user, at), res)
            /\ approveReq' = [approveReq EXCEPT ![r] =
                   IF res.result = "ok" THEN [@ EXCEPT !.pc = "audit", !.at = at]
                                        ELSE IdleReq]
    /\ UNCHANGED <<auditLog, origin, cvars, rvars, pvars>>

\* POST approve, the awaited createAuditLog and the response.
ApproveAudit(r) ==
    /\ approveReq[r].pc = "audit"
    /\ auditLog' = auditLog \cup
           {[user_id |-> approveReq[r].user, action |-> "trade_approved",
             resource_id |-> approveReq[r].order]}
    /\ approveReq' = [approveReq EXCEPT ![r] = IdleReq]
    /\ UNCHANGED <<orders, ordHist, rejected, approvals, origin, cvars, rvars, pvars>>

\* Every other transition request the lifecycle receives: a rejection with
\* its reason, a cancellation, the broker's submitted / filled / failed
\* notifications, and requests the table does not allow.
Actors == Users \cup {"system"}

TransitionData(actor, to) ==
    CASE to = "approved" -> {UpdateData(to, Null, NoTime, Null)}
      [] to = "rejected" -> {UpdateData(to, Null, NoTime, "declined"),
                             UpdateData(to, Null, NoTime, Null)}
      [] OTHER -> {UpdateData(to, Null, NoTime, Null)}

RequestTransition(actor, id, to) ==
    /\ \E data \in TransitionData(actor, to) :
           \E res \in {updateOrder(actor, orders, id, data)} :
               StoreUpdate(actor, id, data, res)
    /\ UNCHANGED <<approveReq, auditLog, origin, cvars, rvars, pvars>>

InitOrders ==
    /\ orders = << >>
    /\ ordHist = << >>
    /\ approvals = << >>
    /\ origin = << >>
    /\ approveReq = [r \in Reqs |-> IdleReq]
    /\ rejected = {}
    /\ auditLog = {}

NextOrders ==
    \/ \E u \in Owners : AnalyzeRoute(u)
    \/ \E r \in Reqs, u \in Owners, id \in OrderIds : ApproveStart(r, u, id)
    \/ \E r \in Reqs : ApproveUpdate(r)
    \/ \E r \in Reqs : ApproveAudit(r)
    \/ \E a \in Actors, id \in OrderIds, to \in OrderStatus : RequestTransition(a, id, to)

---------------------------------------------------------------------------
(* Text: strings are sequences of one-character strings *)

LowerLetters ==
    <<"a", "b", "c", "d", "e", "f", "g", "h", "i", "j", "k", "l", "m",
      "n", "o", "p", "q", "r", "s", "t", "u", "v", "w", "x", "y", "z">>

UpperLetters ==
    <<"A", "B", "C", "D", "E", "F", "G", "H", "I", "J", "K", "L", "M",
      "N", "O", "P", "Q", "R", "S", "T", "U", "V", "W", "X", "Y", "Z">>

\* The capital of each small letter.
UpperOfLower ==
    [c \in {LowerLetters[i] : i \in DOMAIN LowerLetters} |->
        UpperLetters[CHOOSE i \in DOMAIN LowerLetters : LowerLetters[i] = c]]

ToUpperChar(c) == IF c \in DOMAIN UpperOfLower THEN UpperOfLower[c] ELSE c

\* String.prototype.toUpperCase
ToUpperCase(str) == [i \in DOMAIN str |-> ToUpperChar(str[i])]

---------------------------------------------------------------------------
(* Arithmetic of the indicators: cents and hundredths *)

\* Math.round(a / b) for b > 0: the nearest integer, halves upwards.
RoundDiv(a, b) == (2 * a + b) \div (2 * b)

RECURSIVE SumSeq(_)
SumSeq(q) == IF q = << >> THEN 0 ELSE Head(q) + SumSeq(Tail(q))

\* prices.slice(-period)
LastN(q, n) == IF Len(q) <= n THEN q ELSE SubSeq(q, Len(q) - n + 1, Len(q))

Abs(x) == IF x < 0 THEN 0 - x ELSE x

\* The neutral default only below `period` samples.
calculateRSI_ShortGuard(prices, period) ==
    IF Len(prices) < period
    THEN 5000
    ELSE LET changes == [i \in 1..(Len(prices) - 1) |-> prices[i + 1] - prices[i]]
             sumGain == SumSeq(LastN([i \in DOMAIN changes |->
                                         IF changes[i] > 0 THEN changes[i] ELSE 0], period))
             sumLoss == SumSeq(LastN([i \in DOMAIN changes |->
                                         IF changes[i] < 0 THEN Abs(changes[i]) ELSE 0], period))
         IN  IF sumLoss = 0 THEN 10000
             ELSE RoundDiv(10000 * sumGain, sumGain + sumLoss)

\* calculateRSI: prices in cents, the result in hundredths.
calculateRSI(prices, period) ==
    IF Len(prices) < period + 1
    THEN 5000
    ELSE LET changes == [i \in 1..(Len(prices) - 1) |-> prices[i + 1] - prices[i]]
             gains == [i \in DOMAIN changes |-> IF changes[i] > 0 THEN changes[i] ELSE 0]
             losses == [i \in DOMAIN changes |->
                           IF changes[i] < 0 THEN Abs(changes[i]) ELSE 0]
             sumGain == SumSeq(LastN(gains, period))
             sumLoss == SumSeq(LastN(losses, period))
         IN  IF sumLoss = 0
             THEN 10000
             ELSE \* 100 - 100 / (1 + avgGain / avgLoss), rounded to 2 decimals
                  RoundDiv(10000 * sumGain, sumGain + sumLoss)

\* prices[prices.length - 1] without the `|| 0`.
calculateMA_NoOrElse(prices, period) ==
    IF Len(prices) < period
    THEN IF Len(prices) = 0 THEN NoNum ELSE prices[Len(prices)]
    ELSE RoundDiv(SumSeq(LastN(prices, period)), period)

\* calculateMA: prices and the result in cents.
calculateMA(prices, period) ==
    IF Len(prices) < period
    THEN IF Len(prices) = 0 THEN 0 ELSE prices[Len(prices)]
    ELSE RoundDiv(SumSeq(LastN(prices, period)), period)

\* The signal line lags the MACD value, as a smoothed signal would.
calculateMACD_SmoothedSignal(prices) ==
    IF Len(prices) < 26
    THEN [value |-> 0, signal |-> 0, histogram |-> 0]
    ELSE LET macdValue == calculateMA(prices, 12) - calculateMA(prices, 26)
             signal == macdValue \div 2
         IN  [value |-> macdValue, signal |-> signal, histogram |-> macdValue - signal]

\* calculateMACD without the guard on the length of the series.
calculateMACD_NoGuard(prices) ==
    LET macdValue == calculateMA(prices, 12) - calculateMA(prices, 26)
    IN  [value |-> macdValue, signal |-> macdValue, histogram |-> 0]

\* calculateMACD: value, signal and histogram in cents.
calculateMACD(prices) ==
    IF Len(prices) < 26
    THEN [value |-> 0, signal |-> 0, histogram |-> 0]
    ELSE LET macdValue == calculateMA(prices, 12) - calculateMA(prices, 26)
             signal == macdValue
         IN  [value |-> macdValue, signal |-> signal, histogram |-> macdValue - signal]

---------------------------------------------------------------------------
(* Market data cache: the collection and its two queries *)

\* 15 * 60 * 1000
TTL_MS == 15 * 60 * 1000

\* The store answers the query, or the driver throws.
StoreOutcomes == {"ok", "fails"}

\* collection.findOne({symbol, timestamp: {$gte: fifteenMinutesAgo}}): any one
\* document matching the filter (findOne sets no order); the catch turns a
\* store failure into null.  Results are << >> (null) or <<doc>>.
getCachedMarketData_Throws(symbol, docs, t, store) ==
    IF store = "fails"
    THEN {[threw |-> TRUE, doc |-> << >>]}
    ELSE LET fifteenMinutesAgo == t - TTL_MS
             found == {i \in DOMAIN docs : /\ docs[i].symbol = ToUpperCase(symbol)
                                          /\ docs[i].timestamp >= fifteenMinutesAgo}
         IN  IF found = {} THEN {[threw |-> FALSE, doc |-> << >>]}
             ELSE {[threw |-> FALSE, doc |-> <<docs[i]>>] : i \in found}

getCachedMarketData(symbol, docs, t, store) ==
    IF store = "fails"
    THEN {[threw |-> FALSE, doc |-> << >>]}
    ELSE LET fifteenMinutesAgo == t - TTL_MS
             found == {i \in DOMAIN docs : /\ docs[i].symbol = ToUpperCase(symbol)
                                          /\ docs[i].timestamp >= fifteenMinutesAgo}
         IN  IF found = {} THEN {[threw |-> FALSE, doc |-> << >>]}
             ELSE {[threw |-> FALSE, doc |-> <<docs[i]>>] : i \in found}

\* collection.insertOne(data); the catch logs and does not rethrow.
cacheMarketData_Rethrows(docs, doc, store) ==
    IF store = "fails"
    THEN [threw |-> TRUE, docs |-> docs]
    ELSE [threw |-> FALSE, docs |-> Append(docs, doc)]

cacheMarketData(docs, doc, store) ==
    IF store = "fails"
    THEN [threw |-> FALSE, docs |-> docs]
    ELSE [threw |-> FALSE, docs |-> Append(docs, doc)]

\* setCachedData's document, built at instant t (its two clock reads, new
\* Date() and Date.now(), give the same millisecond).  `written` is not a
\* field of the document: it remembers the snapshot getMarketData returns
\* when it writes the entry.
CacheDoc(symbol, rawData, processedData, t) ==
    [symbol |-> ToUpperCase(symbol),
     timestamp |-> t,
     source |-> "yahoo_finance",
     data |-> rawData,
     processed |-> [current_price |-> processedData.current_price,
                    change_percent |-> processedData.change_percent,
                    volume |-> processedData.volume,
                    indicators |-> processedData.indicators],
     expires_at |-> t + TTL_MS,
     written |-> processedData]

---------------------------------------------------------------------------
(* The source: Yahoo Finance quotes and daily history.  Money is in cents,
   percentages and the RSI in hundredths. *)

NVDA == <<"N", "V", "D", "A">>

\* The text each caller passes as the symbol: one ticker, in either letter
\* case.
SymbolInputs == [c1 |-> {NVDA}, c2 |-> {<<"n", "v", "d", "a">>}]

QuoteOf(symbol) ==
    [symbol |-> symbol,
     regularMarketPrice |-> 10000,
     regularMarketPreviousClose |-> 9600,
     regularMarketVolume |-> 5000,
     marketCap |-> 7000,
     regularMarketDayHigh |-> 10500,
     regularMarketDayLow |-> 9900,
     fiftyTwoWeekHigh |-> 25000,
     fiftyTwoWeekLow |-> 6000]

\* A failed quote is answered with a synthetic quote, which getMarketData
\* then processes and caches like a real one.
QuoteOutcomes_MockOnFailure(symbol) ==
    {<<[mock |-> TRUE] @@ QuoteOf(symbol)>>, <<QuoteOf(symbol)>>}

\* yahooFinance.quote: the quote, or the catch's null (<< >>).
QuoteOutcomes(symbol) == {<< >>, <<QuoteOf(symbol)>>}

HistoryDays == 27

\* The closes of the daily history, oldest first.
Closes == [i \in 1..HistoryDays |-> 9000 + 40 * i - (IF i % 3 = 0 THEN 100 ELSE 0)]

\* yahooFinance.historical mapped to closing prices: the series, or the
\* catch's empty list.
HistoricalOutcomes == {<< >>, Closes}

\* x || y on numbers: 0 (like undefined) is falsy.
OrElse(x, y) == IF x = 0 THEN y ELSE x

\* Steps 3 to 5 of getMarketData: the snapshot built from a quote and the
\* closing prices at instant t.
ProcessedData(symbolUpper, quoteData, closingPrices, t) ==
    LET currentPrice == OrElse(quoteData.regularMarketPrice, 0)
        previousClose == OrElse(quoteData.regularMarketPreviousClose, currentPrice)
    IN  [symbol |-> symbolUpper,
         current_price |-> currentPrice,
         change_percent |-> RoundDiv((currentPrice - previousClose) * 10000, previousClose),
         volume |-> OrElse(quoteData.regularMarketVolume, 0),
         market_cap |-> quoteData.marketCap,
         indicators |-> [rsi |-> calculateRSI(closingPrices, 14),
                         macd |-> calculateMACD(closingPrices),
                         moving_averages |-> [ma_50 |-> calculateMA(closingPrices, 50),
                                              ma_200 |-> calculateMA(closingPrices, 200)]],
         price_history |-> [daily_high |-> OrElse(quoteData.regularMarketDayHigh, currentPrice),
                            daily_low |-> OrElse(quoteData.regularMarketDayLow, currentPrice),
                            week_52_high |-> OrElse(quoteData.fiftyTwoWeekHigh, currentPrice),
                            week_52_low |-> OrElse(quoteData.fiftyTwoWeekLow, currentPrice)],
         raw_data |-> quoteData,
         cached_at |-> t,
         cache_hit |-> FALSE]

\* price * (pct / 100) in cents, cut to the cent where the product is not
\* whole (only the price_history of a cache hit is computed with it).
Scale(price, pct) == (price * pct) \div 100

CacheHitSnapshot_NotFlagged(cached) ==
    [symbol |-> cached.symbol,
     current_price |-> cached.processed.current_price,
     change_percent |-> cached.processed.change_percent,
     volume |-> cached.processed.volume,
     market_cap |-> NoNum,
     indicators |-> cached.processed.indicators,
     price_history |-> [daily_high |-> Scale(cached.processed.current_price, 102),
                        daily_low |-> Scale(cached.processed.current_price, 98),
                        week_52_high |-> Scale(cached.processed.current_price, 120),
                        week_52_low |-> Scale(cached.processed.current_price, 80)],
     raw_data |-> cached.data,
     cached_at |-> cached.timestamp,
     cache_hit |-> FALSE]

\* The cache-hit branch of getMarketData: the object literal it returns.  It
\* has no market_cap property (NoNum), and its price_history is computed from
\* the cached price.
CacheHitSnapshot(cached) ==
    [symbol |-> cached.symbol,
     current_price |-> cached.processed.current_price,
     change_percent |-> cached.processed.change_percent,
     volume |-> cached.processed.volume,
     market_cap |-> NoNum,
     indicators |-> cached.processed.indicators,
     price_history |-> [daily_high |-> Scale(cached.processed.current_price, 102),
                        daily_low |-> Scale(cached.processed.current_price, 98),
                        week_52_high |-> Scale(cached.processed.current_price, 120),
                        week_52_low |-> Scale(cached.processed.current_price, 80)],
     raw_data |-> cached.data,
     cached_at |-> cached.timestamp,
     cache_hit |-> TRUE]

\* The draws of Math.random() in getMockMarketData, as the base price.
MockBasePrices == {10000, 30000}

\* getMockMarketData.  The other random fields are fixed at one draw.
getMockMarketData(symbol, basePrice, t) ==
    [symbol |-> ToUpperCase(symbol),
     current_price |-> basePrice,
     change_percent |-> 125,
     volume |-> 1000,
     market_cap |-> NoNum,
     indicators |-> [rsi |-> 5000,
                     macd |-> [value |-> 100, signal |-> 80, histogram |-> 20],
                     moving_averages |-> [ma_50 |-> Scale(basePrice, 95),
                                          ma_200 |-> Scale(basePrice, 90)]],
     price_history |-> [daily_high |-> Scale(basePrice, 102),
                        daily_low |-> Scale(basePrice, 98),
                        week_52_high |-> Scale(basePrice, 130),
                        week_52_low |-> Scale(basePrice, 70)],
     raw_data |-> [mock |-> TRUE],
     cached_at |-> t,
     cache_hit |-> FALSE]

\* callMarketDataTool's ToolCall for the snapshot getMarketData returned.
ToolCall(symbol, data) ==
    [tool |-> "get_market_data",
     symbol |-> ToUpperCase(symbol),
     data_source |-> "yahoo_finance",
     cache_hit |-> data.cache_hit,
     result |-> [current_price |-> data.current_price,
                 change_percent |-> data.change_percent,
                 volume |-> data.volume,
                 indicators |-> data.indicators,
                 price_history |-> data.price_history]]

---------------------------------------------------------------------------
(* callMarketDataTool -> getMarketData, one await at a time *)

Callers == DOMAIN SymbolInputs

\* A caller's invocation: where it stands (pc), its argument and locals, and
\* how its lookup went.  `doc` is the document setCachedData has built and
\* cacheMarketData is about to insert; doc.written is processedData.
IdleCall ==
    [pc |-> "idle", symbol |-> << >>, lookup |-> "none", quote |-> << >>,
     doc |-> << >>]

\* No invocation has completed yet.
NoCall ==
    [from |-> "none", data |-> << >>, tool |-> << >>, lookup |-> "none",
     fetched |-> FALSE, quoted |-> FALSE, write |-> "none", cached |-> << >>,
     lookupAt |-> NoTime]

InFlight == {p \in Callers : call[p].pc # "idle"}

\* getMarketData returns `data` and callMarketDataTool its ToolCall, kept in
\* lastCall with a record of the invocation: where the snapshot came from,
\* how the lookup and the write went, whether the source was asked and gave
\* a quote, and on a hit the document served and the instant of the lookup.
Returned(rec, data, from, write, cached) ==
    [from |-> from, data |-> <<data>>, tool |-> <<ToolCall(rec.symbol, data)>>,
     lookup |-> rec.lookup, fetched |-> rec.pc # "lookup",
     quoted |-> rec.quote # << >>, write |-> write, cached |-> cached,
     lookupAt |-> IF cached = << >> THEN NoTime ELSE now]

\* The catch of getMarketData: mock data, with one of its random draws.
Caught(rec, write) ==
    {Returned(rec, getMockMarketData(ToUpperCase(rec.symbol), basePrice, now),
              "mock", write, << >>) : basePrice \in MockBasePrices}

\* A tool call begins; at most MaxDocs entries are ever awaiting a write or
\* stored.
CallStart(p, symbol) ==
    /\ call[p].pc = "idle"
    /\ Len(cacheDocs) + Cardinality(InFlight) < MaxDocs
    /\ call' = [call EXCEPT ![p] = [IdleCall EXCEPT !.pc = "lookup", !.symbol = symbol]]
    /\ UNCHANGED <<now, cacheDocs, lastCall, ovars, rvars, pvars>>

\* Step 1, await getCachedData(symbolUpper), and the hit branch.
Lookup(p) ==
    /\ call[p].pc = "lookup"
    /\ \E store \in StoreOutcomes :
        \E r \in getCachedMarketData(ToUpperCase(call[p].symbol), cacheDocs, now, store) :
            LET rec == [call[p] EXCEPT !.lookup = IF store = "ok" THEN "ok" ELSE "failed"]
            IN  IF r.threw
                THEN /\ lastCall' \in Caught(rec, "none")
                     /\ call' = [call EXCEPT ![p] = IdleCall]
                ELSE IF r.doc # << >>
                     THEN /\ lastCall' = Returned(rec, CacheHitSnapshot(r.doc[1]),
                                                  "cache", "none", r.doc)
                          /\ call' = [call EXCEPT ![p] = IdleCall]
                     ELSE /\ call' = [call EXCEPT ![p] = [rec EXCEPT !.pc = "quote"]]
                          /\ UNCHANGED lastCall
    /\ UNCHANGED <<now, cacheDocs, ovars, rvars, pvars>>

\* Step 2, await yahooFinance.quote(symbolUpper).
FetchQuote(p) ==
    /\ call[p].pc = "quote"
    /\ \E q \in QuoteOutcomes(ToUpperCase(call[p].symbol)) :
           call' = [call EXCEPT ![p] = [@ EXCEPT !.pc = "historical", !.quote = q]]
    /\ UNCHANGED <<now, cacheDocs, lastCall, ovars, rvars, pvars>>

\* Step 2, await yahooFinance.historical(...); then `if (!quote) throw`,
\* steps 3 to 5, and setCachedData up to its await.
FetchHistorical(p) ==
    /\ call[p].pc = "historical"
    /\ \E closingPrices \in HistoricalOutcomes :
           IF call[p].quote = << >>
           THEN /\ lastCall' \in Caught(call[p], "none")
                /\ call' = [call EXCEPT ![p] = IdleCall]
           ELSE LET symbolUpper == ToUpperCase(call[p].symbol)
                    processedData == ProcessedData(symbolUpper, call[p].quote[1],
                                                   closingPrices, now)
                IN  /\ call' = [call EXCEPT ![p] =
                           [@ EXCEPT !.pc = "write",
                                     !.doc = <<CacheDoc(symbolUpper, call[p].quote[1],
                                                        processedData, now)>>]]
                    /\ UNCHANGED lastCall
    /\ UNCHANGED <<now, cacheDocs, ovars, rvars, pvars>>

\* Step 6, the awaited cacheMarketData(doc), and the return of processedData.
Write(p) ==
    /\ call[p].pc = "write"
    /\ \E store \in StoreOutcomes :
        LET w == cacheMarketData(cacheDocs, call[p].doc[1], store)
            write == IF store = "ok" THEN "ok" ELSE "failed"
        IN  /\ cacheDocs' = w.docs
            /\ IF w.threw
               THEN lastCall' \in Caught(call[p], write)
               ELSE lastCall' = Returned(call[p], call[p].doc[1].written, "fresh",
                                         write, << >>)
    /\ call' = [call EXCEPT ![p] = IdleCall]
    /\ UNCHANGED <<now, ovars, rvars, pvars>>

\* The TTL index {expires_at: 1}, expireAfterSeconds 0: a pass of the TTL
\* monitor deletes the documents whose expires_at has been reached.  When it
\* runs is up to the server.
Expired(doc) == doc.expires_at <= now

TTLMonitor ==
    /\ \E i \in DOMAIN cacheDocs : Expired(cacheDocs[i])
    /\ cacheDocs' = SelectSeq(cacheDocs, LAMBDA doc : ~Expired(doc))
    /\ UNCHANGED <<now, call, lastCall, ovars, rvars, pvars>>

\* The instants the clock is observed at: the start, the last millisecond
\* before the fifteen minutes are over, their end, and the first after.
Instants == {0, TTL_MS - 1, TTL_MS, TTL_MS + 1}

\* Time passes, to a later instant.
Tick(t) ==
    /\ t > now
    /\ now' = t
    /\ UNCHANGED <<cacheDocs, call, lastCall, ovars, rvars, pvars>>

InitCache ==
    /\ now = 0
    /\ cacheDocs = << >>
    /\ call = [p \in Callers |-> IdleCall]
    /\ lastCall = NoCall

NextCache ==
    \/ \E p \in Callers : \E symbol \in SymbolInputs[p] : CallStart(p, symbol)
    \/ \E p \in Callers : Lookup(p)
    \/ \E p \in Callers : FetchQuote(p)
    \/ \E p \in Callers : FetchHistorical(p)
    \/ \E p \in Callers : Write(p)
    \/ TTLMonitor
    \/ \E t \in Instants : Tick(t)

---------------------------------------------------------------------------
(* Text matching: the regular expressions of extractSymbol and
   parseAgentResponse, on sequences of characters *)

ToLowerChar(c) ==
    IF \E i \in DOMAIN UpperLetters : UpperLetters[i] = c
    THEN LowerLetters[CHOOSE i \in DOMAIN UpperLetters : UpperLetters[i] = c]
    ELSE c

\* String.prototype.toLowerCase
ToLowerCase(str) == [i \in DOMAIN str |-> ToLowerChar(str[i])]

Digits == <<"0", "1", "2", "3", "4", "5", "6", "7", "8", "9">>

\* [A-Z]
IsUpper(c) == \E i \in DOMAIN UpperLetters : UpperLetters[i] = c

\* \d
IsDigit(c) == \E i \in DOMAIN Digits : Digits[i] = c

DigitValue(c) == (CHOOSE i \in DOMAIN Digits : Digits[i] = c) - 1

\* \w
IsWordChar(c) ==
    \/ IsUpper(c)
    \/ \E i \in DOMAIN LowerLetters : LowerLetters[i] = c
    \/ IsDigit(c)
    \/ c = "_"

\* \s (the texts of the model have no other white space)
IsSpace(c) == c = " "

\* String.prototype.includes
Includes(str, part) ==
    \E i \in 1..(Len(str) - Len(part) + 1) : SubSeq(str, i, i + Len(part) - 1) = part

\* \b between positions i - 1 and i of str
WordBoundary(str, i) ==
    LET before == i > 1 /\ IsWordChar(str[i - 1])
        after == i <= Len(str) /\ IsWordChar(str[i])
    IN  before # after

\* The literal `word` at position i, letter case ignored (flag i).
LiteralAt(str, i, word) ==
    /\ i + Len(word) - 1 <= Len(str)
    /\ ToLowerCase(SubSeq(str, i, i + Len(word) - 1)) = ToLowerCase(word)

\* The position after \s* matched greedily from i.
AfterSpaces(str, i) ==
    CHOOSE j \in i..(Len(str) + 1) :
        /\ \A k \in i..(j - 1) : IsSpace(str[k])
        /\ j = Len(str) + 1 \/ ~IsSpace(str[j])

\* The position after \d* matched greedily from i.
AfterDigits(str, i) ==
    CHOOSE j \in i..(Len(str) + 1) :
        /\ \A k \in i..(j - 1) : IsDigit(str[k])
        /\ j = Len(str) + 1 \/ ~IsDigit(str[j])

\* The least element of a non-empty set of positions: a regular expression
\* matches at the leftmost position it can.
Leftmost(positions) == CHOOSE i \in positions : \A j \in positions : i <= j

RECURSIVE DecimalValue(_)
\* parseInt of a sequence of digits
DecimalValue(digits) ==
    IF digits = << >> THEN 0
    ELSE 10 * DecimalValue(SubSeq(digits, 1, Len(digits) - 1))
             + DigitValue(digits[Len(digits)])

---------------------------------------------------------------------------
(* extractSymbol *)

\* nameMap, in the order of Object.entries
nameMap ==
    <<[name |-> <<"n", "v", "i", "d", "i", "a">>, symbol |-> <<"N", "V", "D", "A">>],
      [name |-> <<"a", "p", "p", "l", "e">>, symbol |-> <<"A", "A", "P", "L">>],
      [name |-> <<"t", "e", "s", "l", "a">>, symbol |-> <<"T", "S", "L", "A">>],
      [name |-> <<"m", "i", "c", "r", "o", "s", "o", "f", "t">>, symbol |-> <<"M", "S", "F", "T">>],
      [name |-> <<"a", "m", "a", "z", "o", "n">>, symbol |-> <<"A", "M", "Z", "N">>],
      [name |-> <<"g", "o", "o", "g", "l", "e">>, symbol |-> <<"G", "O", "O", "G", "L">>],
      [name |-> <<"m", "e", "t", "a">>, symbol |-> <<"M", "E", "T", "A">>],
      [name |-> <<"n", "e", "t", "f", "l", "i", "x">>, symbol |-> <<"N", "F", "L", "X">>],
      [name |-> <<"a", "m", "d">>, symbol |-> <<"A", "M", "D">>],
      [name |-> <<"i", "n", "t", "e", "l">>, symbol |-> <<"I", "N", "T", "C">>],
      [name |-> <<"f", "a", "c", "e", "b", "o", "o", "k">>, symbol |-> <<"M", "E", "T", "A">>]>>

excludeWords ==
    {<<"I">>, <<"A">>, <<"T", "H", "E">>, <<"A", "N", "D">>, <<"O", "R">>, <<"F", "O", "R">>, <<"T", "O">>, <<"I", "N">>, <<"I", "S">>, <<"I", "T">>, <<"A", "I">>}

\* intent.match(/\b([A-Z]{2,5})\b/): the matches (i, n) of the expression at
\* position i with n letters; the expression takes the leftmost i.
SymbolMatchAt(intent, i, n) ==
    /\ i + n - 1 <= Len(intent)
    /\ WordBoundary(intent, i)
    /\ \A k \in i..(i + n - 1) : IsUpper(intent[k])
    /\ WordBoundary(intent, i + n)

symbolMatch(intent) ==
    LET starts == {i \in 1..Len(intent) : \E n \in 2..5 : SymbolMatchAt(intent, i, n)}
    IN  IF starts = {} THEN << >>
        ELSE LET i == Leftmost(starts)
                 n == CHOOSE m \in 2..5 :
                          /\ SymbolMatchAt(intent, i, m)
                          /\ \A l \in 2..5 : SymbolMatchAt(intent, i, l) => l <= m
             IN  <<SubSeq(intent, i, i + n - 1)>>

\* extractSymbol: the ticker, or << >> for null.
extractSymbol(intent) ==
    LET lowerIntent == ToLowerCase(intent)
        hits == {k \in DOMAIN nameMap : Includes(lowerIntent, nameMap[k].name)}
    IN  IF hits # {} THEN nameMap[Leftmost(hits)].symbol
        ELSE IF symbolMatch(intent) # << >> /\ symbolMatch(intent)[1] \notin excludeWords
             THEN symbolMatch(intent)[1]
             ELSE << >>

---------------------------------------------------------------------------
(* parseAgentResponse: the three matches on the reply text *)

ActionLabel == <<"A", "c", "t", "i", "o", "n", ":">>
ConfidenceLabel == <<"C", "o", "n", "f", "i", "d", "e", "n", "c", "e", ":">>
QuantityLabel == <<"Q", "u", "a", "n", "t", "i", "t", "y", ":">>

ActionWords == {<<"B", "U", "Y">>, <<"S", "E", "L", "L">>, <<"H", "O", "L", "D">>}

\* response.match(/Action:\s*(BUY|SELL|HOLD)/i): << >> or <<the word matched>>
actionMatch(response) ==
    LET at(i) == AfterSpaces(response, i + Len(ActionLabel))
        starts == {i \in 1..Len(response) :
                      /\ LiteralAt(response, i, ActionLabel)
                      /\ \E w \in ActionWords : LiteralAt(response, at(i), w)}
    IN  IF starts = {} THEN << >>
        ELSE LET j == at(Leftmost(starts))
                 w == CHOOSE x \in ActionWords : LiteralAt(response, j, x)
             IN  <<SubSeq(response, j, j + Len(w) - 1)>>

\* actionMatch[1].toUpperCase(), as the action's name; Null without a match.
ActionOf(match) ==
    IF match = << >> THEN Null
    ELSE CASE ToUpperCase(match[1]) = <<"B", "U", "Y">> -> "BUY"
           [] ToUpperCase(match[1]) = <<"S", "E", "L", "L">> -> "SELL"
           [] ToUpperCase(match[1]) = <<"H", "O", "L", "D">> -> "HOLD"

\* response.match(/Confidence:\s*(\d+(?:\.\d+)?)/i): << >> or the digits
\* before and after the decimal point.
confidenceMatch(response) ==
    LET at(i) == AfterSpaces(response, i + Len(ConfidenceLabel))
        starts == {i \in 1..Len(response) :
                      /\ LiteralAt(response, i, ConfidenceLabel)
                      /\ at(i) <= Len(response)
                      /\ IsDigit(response[at(i)])}
    IN  IF starts = {} THEN << >>
        ELSE LET j == at(Leftmost(starts))
                 k == AfterDigits(response, j)
                 hasFraction == /\ k + 1 <= Len(response)
                                /\ response[k] = "."
                                /\ IsDigit(response[k + 1])
                 l == IF hasFraction THEN AfterDigits(response, k + 1) ELSE k
             IN  <<[int |-> SubSeq(response, j, k - 1),
                    frac |-> IF hasFraction THEN SubSeq(response, k + 1, l - 1)
                                            ELSE << >>]>>

\* parseFloat(confidenceMatch[1]) in hundredths; the replies of the model
\* have at most two decimals.
ParseFloat100(m) ==
    100 * DecimalValue(m.int)
        + (IF Len(m.frac) = 0 THEN 0
           ELSE IF Len(m.frac) = 1 THEN 10 * DigitValue(m.frac[1])
           ELSE DecimalValue(SubSeq(m.frac, 1, 2)))

\* response.match(/Quantity:\s*(\d+)/i): << >> or <<the digits>>
quantityMatch(response) ==
    LET at(i) == AfterSpaces(response, i + Len(QuantityLabel))
        starts == {i \in 1..Len(response) :
                      /\ LiteralAt(response, i, QuantityLabel)
                      /\ at(i) <= Len(response)
                      /\ IsDigit(response[at(i)])}
    IN  IF starts = {} THEN << >>
        ELSE LET j == at(Leftmost(starts))
             IN  <<SubSeq(response, j, AfterDigits(response, j) - 1)>>

\* What parseAgentResponse reads off the reply: the action's name, the
\* confidence in hundredths and the quantity, Null / NoNum without a match.
Matches(response) ==
    [action |-> ActionOf(actionMatch(response)),
     confidence |-> IF confidenceMatch(response) = << >> THEN NoNum
                    ELSE ParseFloat100(confidenceMatch(response)[1]),
     quantity |-> IF quantityMatch(response) = << >> THEN NoNum
                  ELSE DecimalValue(quantityMatch(response)[1])]

---------------------------------------------------------------------------
(* Technical analysis of a snapshot.  A signal or risk is named by a tag for
   its text; the numbers the texts quote are left out. *)

\* analyzeTechnicalSignals
analyzeTechnicalSignals(data) ==
    LET rsi == data.indicators.rsi
        ma_50 == data.indicators.moving_averages.ma_50
        ma_200 == data.indicators.moving_averages.ma_200
    IN  (IF rsi # 0
         THEN IF rsi < 3000 THEN <<"RSI oversold">>
              ELSE IF rsi > 7000 THEN <<"RSI overbought">>
              ELSE <<"RSI neutral">>
         ELSE << >>)
        \o (IF data.indicators.macd.histogram > 0
            THEN <<"MACD bullish crossover">>
            ELSE <<"MACD bearish crossover">>)
        \o (IF data.current_price > ma_50
            THEN <<"Price above 50-day MA (bullish)">>
            ELSE <<"Price below 50-day MA (bearish)">>)
        \o (IF ma_50 > ma_200 THEN <<"Golden cross">>
            ELSE IF ma_50 < ma_200 THEN <<"Death cross">>
            ELSE << >>)
        \o (IF data.volume > 1000000 THEN <<"High volume">> ELSE << >>)

\* s.includes('bullish') || s.includes('Golden') || s.includes('above')
BullishSignals ==
    {"MACD bullish crossover", "Price above 50-day MA (bullish)", "Golden cross"}

\* s.includes('bearish') || s.includes('Death') || s.includes('below')
BearishSignals ==
    {"MACD bearish crossover", "Price below 50-day MA (bearish)", "Death cross"}

\* determineTrend
determineTrend(data) ==
    LET signals == analyzeTechnicalSignals(data)
        bullishCount == Cardinality({i \in DOMAIN signals : signals[i] \in BullishSignals})
        bearishCount == Cardinality({i \in DOMAIN signals : signals[i] \in BearishSignals})
    IN  IF bullishCount > bearishCount THEN "Strong uptrend"
        ELSE IF bearishCount > bullishCount THEN "Downtrend"
        ELSE "Sideways/neutral trend"

\* getBasicSentiment: change_percent is in hundredths of a percent.
getBasicSentiment(data) ==
    IF data.change_percent > 200 THEN "Positive"
    ELSE IF data.change_percent < 0 - 200 THEN "Negative"
    ELSE "Neutral"

\* identifyRiskFactors.  dailyRange > 5 is (high - low) / price * 100 > 5; a
\* price of 0 makes the quotient Infinity, -Infinity or NaN.
identifyRiskFactors(data) ==
    LET high == data.price_history.daily_high
        low == data.price_history.daily_low
        price == data.current_price
        rsi == data.indicators.rsi
        risks ==
            (IF (IF price = 0 THEN high > low ELSE (high - low) * 100 > 5 * price)
             THEN <<"High intraday volatility">> ELSE << >>)
            \o (IF rsi # 0 /\ rsi > 7500 THEN <<"Extreme overbought">> ELSE << >>)
            \o (IF rsi # 0 /\ rsi < 2500 THEN <<"Extreme oversold">> ELSE << >>)
            \o (IF price * 100 >= data.price_history.week_52_high * 95
                THEN <<"Near 52-week high">> ELSE << >>)
            \o (IF price * 100 <= data.price_history.week_52_low * 105
                THEN <<"Near 52-week low">> ELSE << >>)
    IN  IF Len(risks) = 0 THEN <<"Standard market risk">> ELSE risks

\* analyzeTechnicalsTool's ToolCall for the snapshot its getMarketData
\* returned.
TechnicalsCall(symbol, data) ==
    [tool |-> "analyze_technicals",
     symbol |-> ToUpperCase(symbol),
     data_source |-> "yahoo_finance",
     cache_hit |-> data.cache_hit,
     result |-> [technical_signals |-> analyzeTechnicalSignals(data),
                 trend_analysis |-> determineTrend(data),
                 sentiment |-> getBasicSentiment(data),
                 risk_factors |-> identifyRiskFactors(data)]]

---------------------------------------------------------------------------
(* runOrchestratorAgent, one await at a time *)

\* The intents runs are started with.
Intents ==
    {<<"n", "i", "c", "e", " ", "d", "a", "y">>,
     <<"b", "u", "y", " ", "N", "V", "D", "A">>}

\* The replies of the reasoning engine (result.response.text()).
Replies ==
    {<<"A", "c", "t", "i", "o", "n", ":", " ", "B", "U", "Y", " ", "C", "o", "n", "f", "i", "d", "e", "n", "c", "e", ":", " ", "7", "8", " ", "Q", "u", "a", "n", "t", "i", "t", "y", ":", " ", "1", "0">>,
     <<"A", "c", "t", "i", "o", "n", ":", " ", "s", "e", "l", "l">>,
     <<"A", "c", "t", "i", "o", "n", ":", " ", "H", "O", "L", "D">>,
     <<"l", "o", "o", "k", "s", " ", "f", "i", "n", "e">>}

\* extractSymbol and the matches of parseAgentResponse, tabulated over the
\* inputs of the runs.
SymbolOfIntent == [intent \in Intents |-> extractSymbol(intent)]

MatchesOfReply == [agentResponse \in Replies |-> Matches(agentResponse)]

\* The getMarketData invocation of the tool call in progress.
NoSub == [pc |-> "none", quote |-> << >>, doc |-> << >>]

LookupSub == [NoSub EXCEPT !.pc = "lookup"]

\* No run yet.  `events` records what the run did: each external call it
\* made, by step, and how the call went.
IdleRun ==
    [pc |-> "idle", intent |-> << >>, symbol |-> << >>, sub |-> NoSub,
     toolsCalled |-> << >>, events |-> {}, out |-> << >>]

EmptyReasoning ==
    [technical_signals |-> << >>, trend_analysis |-> "", sentiment |-> "",
     risk_factors |-> << >>]

\* The catch rethrows: the caller gets an exception, not an output.
ErrorOutput_Rethrown(toolsCalled, error) ==
    [status |-> "THROWN", reasoning |-> EmptyReasoning, proposal |-> << >>,
     tools_called |-> toolsCalled, agent_response |-> << >>, error |-> error]

\* The OrchestratorOutput of a run that ended in ERROR.
ErrorOutput(toolsCalled, error) ==
    [status |-> "ERROR", reasoning |-> EmptyReasoning, proposal |-> << >>,
     tools_called |-> toolsCalled, agent_response |-> << >>, error |-> error]

\* Steps 4 and 6 and the return: the output for the reply agentResponse.
CompletedOutput(symbol, toolsCalled, agentResponse) ==
    LET marketData == toolsCalled[1].result
        technicals == toolsCalled[2].result
        base == runOrchestratorAgent(symbol, marketData, TRUE,
                                     MatchesOfReply[agentResponse])
    IN  [status |-> base.status, reasoning |-> technicals, proposal |-> base.proposal,
         tools_called |-> toolsCalled, agent_response |-> agentResponse,
         error |-> base.error]

\* A run is called: step 1, extractSymbol, and the return without a symbol.
\* A run starts while the cache holds fewer than MaxDocs entries.
RunStart(intent) ==
    /\ run.pc \in {"idle", "returned"}
    /\ Len(cacheDocs) < MaxDocs
    /\ LET symbol == SymbolOfIntent[intent]
           rn == [IdleRun EXCEPT !.intent = intent, !.symbol = symbol]
       IN  IF NoSymbol(symbol)
           THEN run' = [rn EXCEPT !.pc = "returned",
                           !.out = <<ErrorOutput(<< >>, "No symbol found in user intent")>>]
           ELSE run' = [rn EXCEPT !.pc = "md", !.sub = LookupSub]
    /\ UNCHANGED <<now, cacheDocs, call, lastCall, agentRuns, ovars, pvars>>

Event(rn, what) == [step |-> rn.pc, what |-> what]

\* The market-data tool hands over to the reasoning engine directly.
ToolReturned_SkipsAnalysis(rn, data, whats) ==
    [rn EXCEPT !.pc = "gemini", !.sub = NoSub,
               !.toolsCalled = Append(rn.toolsCalled, ToolCall(rn.symbol, data)),
               !.events = rn.events \cup {Event(rn, w) : w \in whats}]

\* The tool of the step returns its ToolCall for `data`: toolsCalled.push,
\* the throw on result.error, and the next step.
ToolReturned(rn, data, whats) ==
    LET toolCall == IF rn.pc = "md" THEN ToolCall(rn.symbol, data)
                                  ELSE TechnicalsCall(rn.symbol, data)
        toolsCalled == Append(rn.toolsCalled, toolCall)
        events == rn.events \cup {Event(rn, w) : w \in whats}
    IN  IF "error" \in DOMAIN toolCall.result
        THEN [rn EXCEPT !.pc = "returned", !.sub = NoSub, !.toolsCalled = toolsCalled,
                        !.events = events,
                        !.out = <<ErrorOutput(toolsCalled,
                                              IF rn.pc = "md"
                                              THEN "Market data fetch failed"
                                              ELSE "Technical analysis failed")>>]
        ELSE [rn EXCEPT !.pc = IF rn.pc = "md" THEN "ta" ELSE "gemini",
                        !.sub = IF rn.pc = "md" THEN LookupSub ELSE NoSub,
                        !.toolsCalled = toolsCalled, !.events = events]

\* The catch of getMarketData inside the tool of the step.
ToolCaught(rn, whats) ==
    {ToolReturned(rn, getMockMarketData(ToUpperCase(rn.symbol), basePrice, now),
                  whats \cup {"mock"}) : basePrice \in MockBasePrices}

InTool == run.pc \in {"md", "ta"}

\* getMarketData step 1 inside the tool of the step, and the hit branch.
RunLookup ==
    /\ InTool /\ run.sub.pc = "lookup"
    /\ \E store \in StoreOutcomes :
        \E r \in getCachedMarketData(ToUpperCase(run.symbol), cacheDocs, now, store) :
            LET looked == IF store = "ok" THEN "lookup" ELSE "lookup failed"
            IN  IF r.threw
                THEN run' \in ToolCaught(run, {looked})
                ELSE IF r.doc # << >>
                     THEN run' = ToolReturned(run, CacheHitSnapshot(r.doc[1]),
                                              {looked, "hit"})
                     ELSE run' = [run EXCEPT !.sub.pc = "quote",
                                             !.events = @ \cup {Event(run, looked)}]
    /\ UNCHANGED <<now, cacheDocs, call, lastCall, agentRuns, ovars, pvars>>

\* getMarketData step 2 (quote) inside the tool of the step.
RunFetchQuote ==
    /\ InTool /\ run.sub.pc = "quote"
    /\ \E q \in QuoteOutcomes(ToUpperCase(run.symbol)) :
           run' = [run EXCEPT !.sub.pc = "historical", !.sub.quote = q,
                              !.events = @ \cup {Event(run, IF q = << >> THEN "quote failed"
                                                                         ELSE "quote")}]
    /\ UNCHANGED <<now, cacheDocs, call, lastCall, agentRuns, ovars, pvars>>

\* getMarketData step 2 (historical), `if (!quote) throw`, steps 3 to 5 and
\* setCachedData up to its await, inside the tool of the step.
RunFetchHistorical ==
    /\ InTool /\ run.sub.pc = "historical"
    /\ \E closingPrices \in HistoricalOutcomes :
           LET fetched == IF closingPrices = << >> THEN "historical failed"
                                                   ELSE "historical"
           IN  IF run.sub.quote = << >>
               THEN run' \in ToolCaught(run, {fetched})
               ELSE LET symbolUpper == ToUpperCase(run.symbol)
                        processedData == ProcessedData(symbolUpper, run.sub.quote[1],
                                                       closingPrices, now)
                    IN  run' = [run EXCEPT
                                   !.sub.pc = "write",
                                   !.sub.doc = <<CacheDoc(symbolUpper, run.sub.quote[1],
                                                          processedData, now)>>,
                                   !.events = @ \cup {Event(run, fetched)}]
    /\ UNCHANGED <<now, cacheDocs, call, lastCall, agentRuns, ovars, pvars>>

\* getMarketData step 6 and the return of processedData, inside the tool of
\* the step.
RunWrite ==
    /\ InTool /\ run.sub.pc = "write"
    /\ \E store \in StoreOutcomes :
        LET w == cacheMarketData(cacheDocs, run.sub.doc[1], store)
            wrote == IF store = "ok" THEN "write" ELSE "write failed"
        IN  /\ cacheDocs' = w.docs
            /\ IF w.threw
               THEN run' \in ToolCaught(run, {wrote})
               ELSE run' = ToolReturned(run, run.sub.doc[1].written, {wrote, "fresh"})
    /\ UNCHANGED <<now, call, lastCall, agentRuns, ovars, pvars>>

\* Step 5, await chat.sendMessage(contextForAI): the reply and steps 6, or
\* the throw into the catch.
RunGemini ==
    /\ run.pc = "gemini"
    /\ \/ \E agentResponse \in Replies :
              run' = [run EXCEPT
                         !.pc = "returned",
                         !.events = @ \cup {Event(run, "reply")},
                         !.out = <<CompletedOutput(run.symbol, run.toolsCalled,
                                                   agentResponse)>>]
       \/ run' = [run EXCEPT
                     !.pc = "returned",
                     !.events = @ \cup {Event(run, "call failed")},
                     !.out = <<ErrorOutput(run.toolsCalled, "Gemini call failed")>>]
    /\ UNCHANGED <<now, cacheDocs, call, lastCall, agentRuns, ovars, pvars>>

\* The await the run in progress stands at completes.
RunStep == RunLookup \/ RunFetchQuote \/ RunFetchHistorical \/ RunWrite \/ RunGemini

InitRun ==
    /\ run = IdleRun
    /\ agentRuns = << >>

NextRun ==
    \/ \E intent \in Intents : RunStart(intent)
    \/ RunLookup
    \/ RunFetchQuote
    \/ RunFetchHistorical
    \/ RunWrite
    \/ RunGemini
    \/ TTLMonitor
    \/ \E t \in Instants : Tick(t)

---------------------------------------------------------------------------
(* extractSymbol, parseAgentResponse and a run over a cache hit, applied to
   inputs *)

\* The intents extractSymbol is applied to.
ProbeIntents ==
    {<<"n", "i", "c", "e", " ", "d", "a", "y">>,
     <<"b", "u", "y", " ", "N", "V", "D", "A">>,
     <<"S", "h", "o", "u", "l", "d", " ", "I", " ", "b", "u", "y", " ", "n", "v", "i", "d", "i", "a">>,
     <<"I", "S", " ", "N", "V", "D", "A", " ", "a", " ", "b", "u", "y">>,
     <<"I", " ", "l", "i", "k", "e", " ", "a", "p", "p", "l", "e">>,
     <<"A", "I", " ", "o", "r", " ", "T", "S", "L", "A">>,
     <<"T", "H", "E">>,
     <<"b", "u", "y", " ", "A", "B", "C", "D", "E", "F">>,
     <<"s", "e", "l", "l", " ", "T", "e", "s", "l", "a", " ", "n", "o", "w">>,
     <<"A", "M", "D">>,
     <<"i", "s", " ", "i", "t", " ", "o", "k">>,
     <<"G", "O", "O", "G", "L", " ", "u", "p">>,
     <<"m", "e", "t", "a", "v", "e", "r", "s", "e">>,
     <<"T", "O", " ", "T", "H", "E", " ", "M", "O", "O", "N">>,
     <<"I", " ", "t", "h", "i", "n", "k", " ", "t", "h", "e", " ", "m", "a", "r", "k", "e", "t", " ", "i", "s", " ", "n", "i", "c", "e", " ", "t", "o", "d", "a", "y">>,
     <<"A", " ", "B">>,
     <<"b", "u", "y", " ", "N", "V", "D", "A", "1">>,
     <<"I", "B", "M", " ", "a", "n", "d", " ", "A", "M", "D">>}

\* The replies parseAgentResponse is applied to: an action part, a confidence
\* part and a quantity part, each of which may be missing.
ActionParts ==
    {<< >>,
     <<"A", "c", "t", "i", "o", "n", ":", " ", "B", "U", "Y", " ">>,
     <<"a", "c", "t", "i", "o", "n", ":", " ", "s", "e", "l", "l", " ">>,
     <<"A", "c", "t", "i", "o", "n", ":", " ", "H", "O", "L", "D", " ">>,
     <<"A", "c", "t", "i", "o", "n", ":", "S", "E", "L", "L", " ">>}


ConfidenceParts ==
    {<< >>,
     <<"C", "o", "n", "f", "i", "d", "e", "n", "c", "e", ":", " ", "7", "8", " ">>,
     <<"C", "o", "n", "f", "i", "d", "e", "n", "c", "e", ":", " ", "0", ".", "4", "2", " ">>,
     <<"C", "o", "n", "f", "i", "d", "e", "n", "c", "e", ":", " ", "1", "5", "0", " ">>,
     <<"C", "o", "n", "f", "i", "d", "e", "n", "c", "e", ":", " ", "1", " ">>,
     <<"C", "o", "n", "f", "i", "d", "e", "n", "c", "e", ":", " ", "1", "0", "0", " ">>}


QuantityParts ==
    {<< >>,
     <<"Q", "u", "a", "n", "t", "i", "t", "y", ":", " ", "1", "0">>,
     <<"Q", "u", "a", "n", "t", "i", "t", "y", ":", " ", "3">>,
     <<"Q", "u", "a", "n", "t", "i", "t", "y", ":", " ", "0">>}

ProbeReplies == {a \o c \o q : a \in ActionParts, c \in ConfidenceParts, q \in QuantityParts}

\* The matches of parseAgentResponse, tabulated over the replies.
MatchesOfProbeReply == [response \in ProbeReplies |-> Matches(response)]

\* current_price of the marketData argument, in cents.
ProbePrices == {0, 1, 10000, 48523}

\* The marketData argument: a tool result with a price, or one without.
ProbeMarketData ==
    {[current_price |-> p] : p \in ProbePrices} \cup {[change_percent |-> 0]}

\* The price of the cached entry of the run over a cache hit.
CachedPrices == {10000, 48523}

ProbeInputs ==
    {[fn |-> "extractSymbol", intent |-> intent, out |-> << >>] : intent \in ProbeIntents}
    \cup {[fn |-> "parseAgentResponse", response |-> response, marketData |-> marketData,
           out |-> << >>] : response \in ProbeReplies, marketData \in ProbeMarketData}
    \cup {[fn |-> "runOrchestratorAgent", intent |-> intent, price |-> price,
           agentResponse |-> agentResponse, out |-> << >>] :
              intent \in {i \in Intents : SymbolOfIntent[i] # << >>},
              price \in CachedPrices, agentResponse \in Replies}

ApplyExtractSymbol ==
    /\ probe.fn = "extractSymbol" /\ probe.out = << >>
    /\ probe' = [probe EXCEPT !.out = <<extractSymbol(probe.intent)>>]
    /\ UNCHANGED <<ovars, cvars, rvars>>

ApplyParseAgentResponse ==
    /\ probe.fn = "parseAgentResponse" /\ probe.out = << >>
    /\ probe' = [probe EXCEPT
                    !.out = <<parseAgentResponse(MatchesOfProbeReply[probe.response],
                                                 probe.marketData)>>]
    /\ UNCHANGED <<ovars, cvars, rvars>>

\* A run whose two tools are served from the cache entry written for a quote
\* at `price`, and whose reasoning engine replies agentResponse.
RunOnCacheHit(intent, price, agentResponse) ==
    LET symbol == SymbolOfIntent[intent]
        symbolUpper == ToUpperCase(symbol)
        quoteData == [QuoteOf(symbolUpper) EXCEPT !.regularMarketPrice = price]
        cached == CacheDoc(symbolUpper, quoteData,
                           ProcessedData(symbolUpper, quoteData, Closes, 0), 0)
        data == CacheHitSnapshot(cached)
    IN  CompletedOutput(symbol,
                        <<ToolCall(symbol, data), TechnicalsCall(symbol, data)>>,
                        agentResponse)

ApplyRunOrchestratorAgent ==
    /\ probe.fn = "runOrchestratorAgent" /\ probe.out = << >>
    /\ probe' = [probe EXCEPT
                    !.out = <<RunOnCacheHit(probe.intent, probe.price,
                                            probe.agentResponse)>>]
    /\ UNCHANGED <<ovars, cvars, rvars>>

InitParse == InitOrders /\ InitCache /\ InitRun /\ probe \in ProbeInputs

NextParse ==
    \/ ApplyExtractSymbol
    \/ ApplyParseAgentResponse
    \/ ApplyRunOrchestratorAgent

---------------------------------------------------------------------------
(* The indicators and the analysis of a snapshot, applied to inputs *)

\* Closing prices, in cents.
PriceLevels == {100, 101, 103, 106}

\* Every series of at most MaxLen closes over PriceLevels.
ShortSeries == UNION {[1..n -> PriceLevels] : n \in 0..MaxLen}

\* A series of len closes that moves by `step` a day, with a swing every
\* third day.
Trend(len, step, swing) == [i \in 1..len |-> 10000 + step * i + swing * (i % 3)]

\* Series around the 26 samples calculateMACD asks for, falling, flat and
\* rising.
LongSeries ==
    {Trend(len, step, swing) : len \in {15, 25, 26, 27, 60},
                               step \in {0 - 30, 0, 7, 40},
                               swing \in {0 - 100, 0, 50}}

\* The period argument of calculateRSI; the code calls it with 14.
Periods == {1, 2, 3, 14}

RSIInputs ==
    {[fn |-> "calculateRSI", prices |-> prices, period |-> period, out |-> << >>] :
        prices \in ShortSeries \cup LongSeries, period \in Periods}

ApplyCalculateRSI ==
    /\ probe.fn = "calculateRSI" /\ probe.out = << >>
    /\ probe' = [probe EXCEPT !.out = <<calculateRSI(probe.prices, probe.period)>>]
    /\ UNCHANGED <<ovars, cvars, rvars>>

MACDInputs ==
    {[fn |-> "calculateMACD", prices |-> prices, out |-> << >>] :
        prices \in ShortSeries \cup LongSeries}

ApplyCalculateMACD ==
    /\ probe.fn = "calculateMACD" /\ probe.out = << >>
    /\ probe' = [probe EXCEPT !.out = <<calculateMACD(probe.prices)>>]
    /\ UNCHANGED <<ovars, cvars, rvars>>

\* A quote at `price` with `volume` shares traded, its day's range around the
\* price.
QuoteAt(symbol, price, volume) ==
    [QuoteOf(symbol) EXCEPT !.regularMarketPrice = price,
                            !.regularMarketVolume = volume,
                            !.regularMarketDayHigh = price + 500,
                            !.regularMarketDayLow = price - 100]

\* The snapshots getMarketData returns: built from a quote and a history,
\* served from the cache entry written for one, or the mock.
FreshSnapshots ==
    {ProcessedData(NVDA, QuoteAt(NVDA, price, volume), prices, 0) :
        price \in {6100, 10000, 24000}, volume \in {5000, 2000000},
        prices \in LongSeries \cup {<< >>}}

HitSnapshots ==
    {CacheHitSnapshot(CacheDoc(NVDA, data.raw_data, data, 0)) : data \in FreshSnapshots}

MockSnapshots == {getMockMarketData(NVDA, basePrice, 0) : basePrice \in MockBasePrices}

Snapshots == FreshSnapshots \cup HitSnapshots \cup MockSnapshots

SnapshotInputs ==
    {[fn |-> fn, data |-> data, out |-> << >>] :
        fn \in {"analyzeTechnicalSignals", "identifyRiskFactors"}, data \in Snapshots}

ApplyAnalyzeTechnicalSignals ==
    /\ probe.fn = "analyzeTechnicalSignals" /\ probe.out = << >>
    /\ probe' = [probe EXCEPT !.out = <<analyzeTechnicalSignals(probe.data)>>]
    /\ UNCHANGED <<ovars, cvars, rvars>>

ApplyIdentifyRiskFactors ==
    /\ probe.fn = "identifyRiskFactors" /\ probe.out = << >>
    /\ probe' = [probe EXCEPT !.out = <<identifyRiskFactors(probe.data)>>]
    /\ UNCHANGED <<ovars, cvars, rvars>>

InitIndicators ==
    /\ InitOrders /\ InitCache /\ InitRun
    /\ probe \in RSIInputs \cup MACDInputs \cup SnapshotInputs

NextIndicators ==
    \/ ApplyCalculateRSI
    \/ ApplyCalculateMACD
    \/ ApplyAnalyzeTechnicalSignals
    \/ ApplyIdentifyRiskFactors

---------------------------------------------------------------------------

NoProbe == [fn |-> "none"]

Init == InitOrders /\ InitCache /\ InitRun /\ probe = NoProbe

\* The order lifecycle, the cache left alone.
SpecOrders == Init /\ [][NextOrders]_vars

\* The market data cache, the orders left alone.
SpecCache == Init /\ [][NextCache]_vars

\* One run of the agent after another, over the cache.
SpecRun == Init /\ [][NextRun]_vars

\* The runs when every awaited call (cache, source, reasoning engine) of a
\* run in progress eventually returns or fails.
SpecRunLive == Init /\ [][NextRun]_vars /\ WF_vars(RunStep)

\* extractSymbol, parseAgentResponse and the cache-hit run, each applied once
\* to one of the inputs.
SpecParse == InitParse /\ [][NextParse]_vars

\* The indicators and the analysis functions, each applied once to one of the
\* inputs.
SpecIndicators == InitIndicators /\ [][NextIndicators]_vars


---------------------------------------------------------------------------
(* Order lifecycle: properties *)

\* Every request a caller can send for a row: the approve handler's and the
\* other transition requests.
AllRequests(actor) ==
    UNION {TransitionData(actor, to) : to \in OrderStatus}
        \cup {ApproveData(actor, at) : at \in Times}

\* The store refuses every request `reqs` of every actor who can see row id,
\* with InvalidTransition and without writing.
Refuses(id, reqs) ==
    \A actor \in Actors : \A data \in reqs :
        RlsAllowsUpdate(actor, orders[id]) =>
            LET res == updateOrder(actor, orders, id, data)
            IN  res.result = "InvalidTransition" /\ res.table = orders

---------------------------------------------------------------------------
(* Market data cache: claims *)

\* The data fields of a snapshot.
DataFields(d) ==
    [current_price |-> d.current_price, change_percent |-> d.change_percent,
     volume |-> d.volume, market_cap |-> d.market_cap,
     indicators |-> d.indicators, price_history |-> d.price_history]

\* C6: a lookup returns a stored entry only at an instant before the entry's
\* expires_at, the write time plus 15 minutes; from now = expires_at on the
\* lookup reports a miss.
C6_ServedOnlyBeforeExpiry ==
    lastCall.cached # << >> =>
        /\ lastCall.cached[1].expires_at = lastCall.cached[1].timestamp + TTL_MS
        /\ lastCall.lookupAt < lastCall.cached[1].expires_at

\* C7: a lookup within the TTL of a symbol getMarketData stored returns a
\* snapshot equal to the stored one in every data field (price, change
\* percent, volume, market cap, indicators, daily and 52-week highs and lows).
C7_HitEqualsStored ==
    lastCall.from = "cache" /\ lastCall.lookupAt < lastCall.cached[1].expires_at =>
        DataFields(lastCall.data[1]) = DataFields(lastCall.cached[1].written)

\* C8: the cache holds at most one entry per symbol, whatever the interleaving
\* of the runs that miss and then write it.
C8_OneEntryPerSymbol ==
    \A i, j \in DOMAIN cacheDocs :
        cacheDocs[i].symbol = cacheDocs[j].symbol => i = j

\* C9: a store failure during the lookup is a miss followed by a fetch from
\* the source; a store failure during the write still returns the freshly
\* fetched snapshot; in neither case does the tool call carry an error.
C9_CacheFailureDegrades ==
    /\ \A p \in Callers :
           call[p].lookup = "failed" => call[p].pc \in {"quote", "historical", "write"}
    /\ lastCall.from # "none" =>
           /\ lastCall.lookup = "failed" => lastCall.cached = << >> /\ lastCall.fetched
           /\ lastCall.write = "failed" =>
                  /\ lastCall.from = "fresh"
                  /\ lastCall.data[1].raw_data = QuoteOf(lastCall.data[1].symbol)
                  /\ lastCall.tool[1].result.current_price =
                         QuoteOf(lastCall.data[1].symbol).regularMarketPrice
           /\ "error" \notin DOMAIN lastCall.tool[1].result

C9_Witness ==
    /\ lastCall.lookup = "failed"
    /\ lastCall.write = "failed"
    /\ lastCall.from = "fresh"
    /\ lastCall.fetched

\* C10: a hit asks the source nothing and writes nothing; a miss asks the
\* source and, when the quote came, writes the snapshot before returning; the
\* ToolCall's cache_hit is true exactly when the snapshot came from the cache.
C10_HitSkipsFetchMissWrites ==
    /\ \A p \in Callers :
           /\ call[p].pc \in {"quote", "historical", "write"} =>
                  call[p].lookup \in {"ok", "failed"}
           /\ call[p].pc = "write" =>
                  /\ call[p].quote # << >>
                  /\ call[p].doc[1].processed.current_price =
                         call[p].doc[1].written.current_price
    /\ lastCall.from # "none" =>
           /\ lastCall.from = "cache" =>
                  /\ ~lastCall.fetched /\ lastCall.write = "none"
                  /\ lastCall.cached[1].symbol = lastCall.tool[1].symbol
           /\ lastCall.from # "cache" => lastCall.fetched /\ lastCall.cached = << >>
           /\ lastCall.quoted => lastCall.write \in {"ok", "failed"}
           /\ lastCall.tool[1].cache_hit = (lastCall.from = "cache")
           /\ lastCall.data[1].cache_hit = (lastCall.from = "cache")

C10_Witness ==
    /\ lastCall.from = "cache"
    /\ lastCall.tool[1].cache_hit
    /\ \E i \in DOMAIN cacheDocs : cacheDocs[i] = lastCall.cached[1]

---------------------------------------------------------------------------
(* Agent run: properties *)

\* The run made the call `what` during `step`.
Did(step, what) == [step |-> step, what |-> what] \in run.events

RunReturned == run.pc = "returned"

\* The indicators of an empty close series.
DefaultIndicators ==
    [rsi |-> 5000,
     macd |-> [value |-> 0, signal |-> 0, histogram |-> 0],
     moving_averages |-> [ma_50 |-> 0, ma_200 |-> 0]]

\* C11: when the quote fetch of the market-data step fails on a cache miss,
\* the step fails hard: no mock snapshot is substituted, the get_market_data
\* invocation carries the error, no later step runs, and the run ends in
\* ERROR with no proposal.
C11_QuoteFailureIsHardFailure ==
    Did("md", "quote failed") =>
        /\ ~Did("md", "mock")
        /\ run.pc \in {"md", "returned"}
        /\ Len(run.toolsCalled) >= 1 => "error" \in DOMAIN run.toolsCalled[1].result
        /\ RunReturned => /\ run.out[1].status = "ERROR"
                       /\ run.out[1].proposal = << >>

\* C12: when the quote fetch succeeds and the history fetch fails, the
\* snapshot getMarketData builds is the real one of the quote with the
\* indicators of an empty series (RSI 50, MACD 0/0/0, moving averages 0); it
\* is handed to the cache, the tool call returns it without an error or a
\* mock, and the run ends in ERROR only if the reasoning engine fails.
C12_HistoryFailureDegrades ==
    /\ (InTool /\ run.sub.pc = "write" /\ Did(run.pc, "historical failed")) =>
           LET doc == run.sub.doc[1]
           IN  /\ doc.written.indicators = DefaultIndicators
               /\ doc.processed.indicators = DefaultIndicators
               /\ doc.written.raw_data = QuoteOf(ToUpperCase(run.symbol))
               /\ doc.data = QuoteOf(ToUpperCase(run.symbol))
               /\ doc.written.current_price = QuoteOf(ToUpperCase(run.symbol)).regularMarketPrice
    /\ (Did("md", "quote") /\ Did("md", "historical failed") /\ Len(run.toolsCalled) >= 1) =>
           /\ run.toolsCalled[1].result.indicators = DefaultIndicators
           /\ run.toolsCalled[1].result.current_price
                  = QuoteOf(ToUpperCase(run.symbol)).regularMarketPrice
           /\ "error" \notin DOMAIN run.toolsCalled[1].result
           /\ ~Did("md", "mock")
           /\ Did("md", "write") \/ Did("md", "write failed")
           /\ (Did("md", "write") /\ now = 0) =>
                  \E i \in DOMAIN cacheDocs :
                      /\ cacheDocs[i].processed.indicators = DefaultIndicators
                      /\ cacheDocs[i].data = QuoteOf(ToUpperCase(run.symbol))
           /\ (RunReturned /\ run.out[1].status = "ERROR") => Did("gemini", "call failed")

C12_Witness ==
    /\ RunReturned
    /\ Did("md", "quote") /\ Did("md", "historical failed") /\ Did("md", "write")
    /\ run.out[1].status = "COMPLETED"

\* C13: a run whose intent gives no ticker returns ERROR at once, with an
\* empty tool-invocation list and no proposal, having made no cache lookup,
\* no source fetch and no reasoning-engine call.
C13_NoSymbolFailsFast ==
    (run.pc # "idle" /\ run.symbol = << >>) =>
        /\ RunReturned
        /\ run.out[1].status = "ERROR"
        /\ run.out[1].tools_called = << >>
        /\ run.out[1].proposal = << >>
        /\ run.toolsCalled = << >>
        /\ run.events = {}

C13_Witness ==
    /\ RunReturned
    /\ run.intent # << >>
    /\ run.symbol = << >>
    /\ run.out[1].status = "ERROR"

\* C14: a run whose parsed action is HOLD, the default without an action
\* token included, ends with status COMPLETED and no proposal.
C14_HoldCompletes ==
    (RunReturned /\ Did("gemini", "reply")
        /\ MatchesOfReply[run.out[1].agent_response].action \in {Null, "HOLD"}) =>
        /\ run.out[1].status = "COMPLETED"
        /\ run.out[1].proposal = << >>

\* C15: a run one of whose steps failed (the source of the market-data step
\* or of the analysis step, or the reasoning-engine call) returns ERROR with
\* the error message and no proposal, runs none of the later steps, and
\* returns the tool invocations recorded before the failure.
C15_FailureEndsInError ==
    LET failedMd == Did("md", "quote failed")
        failedTa == Did("ta", "quote failed")
        failedGemini == Did("gemini", "call failed")
    IN  /\ failedMd => run.pc \in {"md", "returned"}
        /\ failedTa => run.pc \in {"ta", "returned"}
        /\ (RunReturned /\ (failedMd \/ failedTa \/ failedGemini)) =>
               /\ run.out[1].status = "ERROR"
               /\ run.out[1].error # Null
               /\ run.out[1].proposal = << >>
               /\ run.out[1].tools_called = run.toolsCalled

\* C16: a run that has returned has its trace in agent_runs.
C16_ReturnedRunIsPersisted ==
    RunReturned =>
        \E i \in DOMAIN agentRuns :
            /\ agentRuns[i].input = run.intent
            /\ agentRuns[i].agent_status = run.out[1].status

---------------------------------------------------------------------------
(* Symbol extraction and reply parsing: properties *)

Applied(fn) == probe.fn = fn /\ probe.out # << >>

\* The tickers of the aliases the lower-cased intent contains.
AliasTickers(intent) ==
    {nameMap[k].symbol : k \in {h \in DOMAIN nameMap :
                                   Includes(ToLowerCase(intent), nameMap[h].name)}}

\* The tokens of 2 to 5 uppercase letters of the intent that are no stop words.
TickerTokens(intent) ==
    LET at == {m \in (1..Len(intent)) \X (2..5) : SymbolMatchAt(intent, m[1], m[2])}
        tokens == {SubSeq(intent, m[1], m[1] + m[2] - 1) : m \in at}
    IN  tokens \ excludeWords

\* C17: the run for NVDA over a cache entry priced 485.23 whose reply reads
\* action BUY, confidence 78 and quantity 10 returns the proposal BUY NVDA,
\* quantity 10, entry 485.23, stop_loss 460.97, target 533.75, confidence
\* 0.78, holding_window "3-7 days".
C17_EndToEndProposal ==
    (/\ Applied("runOrchestratorAgent")
     /\ ToUpperCase(SymbolOfIntent[probe.intent]) = NVDA
     /\ probe.price = 48523
     /\ MatchesOfReply[probe.agentResponse]
            = [action |-> "BUY", confidence |-> 7800, quantity |-> 10]) =>
        probe.out[1].proposal =
            <<[action |-> "BUY", symbol |-> NVDA, quantity |-> 10,
               entry_price |-> 4852300, stop_loss |-> 4609700,
               target_price |-> 5337500, confidence |-> 7800,
               holding_window |-> "3-7 days"]>>

\* C18: the confidence of every proposal parsed from a reply lies in [0,1]:
\* the number after "Confidence:" is kept when at most 1 and divided by 100
\* when greater.
C18_ConfidenceInUnitInterval ==
    (Applied("parseAgentResponse") /\ probe.out[1].proposal # << >>) =>
        LET confidence == probe.out[1].proposal[1].confidence
            matched == MatchesOfProbeReply[probe.response].confidence
        IN  /\ confidence \in 0..10000
            /\ (matched # NoNum /\ matched <= 100) => confidence = matched * 100
            /\ (matched # NoNum /\ matched > 100) => confidence = matched

\* C19: a BUY proposal has entry_price = price, stop_loss = 0.95 price and
\* target_price = 1.10 price, a SELL proposal stop_loss = 1.05 price and
\* target_price = 0.90 price, where price is the current price of the
\* snapshot; so for price > 0 a BUY has stop_loss < entry_price < target_price
\* and a SELL target_price < entry_price < stop_loss; holding_window is
\* "3-7 days".
C19_ProposalPriceLevels ==
    (/\ Applied("parseAgentResponse")
     /\ probe.out[1].proposal # << >>
     /\ "current_price" \in DOMAIN probe.marketData) =>
        LET proposal == probe.out[1].proposal[1]
            price == probe.marketData.current_price
        IN  /\ proposal.action \in {"BUY", "SELL"}
            /\ proposal.entry_price = 100 * price
            /\ proposal.holding_window = "3-7 days"
            /\ proposal.action = "BUY" =>
                   /\ proposal.stop_loss = 95 * price
                   /\ proposal.target_price = 110 * price
                   /\ price > 0 => /\ proposal.stop_loss < proposal.entry_price
                                   /\ proposal.entry_price < proposal.target_price
            /\ proposal.action = "SELL" =>
                   /\ proposal.stop_loss = 105 * price
                   /\ proposal.target_price = 90 * price
                   /\ price > 0 => /\ proposal.target_price < proposal.entry_price
                                   /\ proposal.entry_price < proposal.stop_loss

C19_Witness ==
    /\ Applied("parseAgentResponse")
    /\ probe.out[1].proposal # << >>
    /\ probe.out[1].proposal[1].action = "BUY"
    /\ "current_price" \in DOMAIN probe.marketData
    /\ probe.marketData.current_price = 48523

\* C20: extractSymbol returns the ticker of an alias when the lower-cased
\* intent contains one; otherwise a token of 2 to 5 uppercase letters that is
\* no stop word when the intent contains one; and no symbol only when the
\* intent contains neither.
C20_ExtractSymbolFindsTicker ==
    Applied("extractSymbol") =>
        IF AliasTickers(probe.intent) # {}
        THEN probe.out[1] \in AliasTickers(probe.intent)
        ELSE IF TickerTokens(probe.intent) # {}
             THEN probe.out[1] \in TickerTokens(probe.intent)
             ELSE probe.out[1] = << >>

---------------------------------------------------------------------------
(* Agent run: order of the steps *)

\* The steps the run has made a call in.
StepsTaken == {e.step : e \in run.events}

\* C21: within a run the steps go in order, get_market_data, then
\* analyze_technicals, then the reasoning engine; the reasoning engine is
\* called only after both tool invocations returned without an error; and
\* each of the three is attempted at most once.
C21_StepsInOrderOnce ==
    /\ Len(run.toolsCalled) <= 2
    /\ Len(run.toolsCalled) >= 1 => run.toolsCalled[1].tool = "get_market_data"
    /\ Len(run.toolsCalled) = 2 => run.toolsCalled[2].tool = "analyze_technicals"
    /\ run.pc = "md" => Len(run.toolsCalled) = 0 /\ StepsTaken \subseteq {"md"}
    /\ run.pc = "ta" => Len(run.toolsCalled) = 1 /\ StepsTaken \subseteq {"md", "ta"}
    /\ run.pc = "gemini" => Len(run.toolsCalled) = 2 /\ "gemini" \notin StepsTaken
    /\ "ta" \in StepsTaken =>
           /\ Len(run.toolsCalled) >= 1
           /\ "error" \notin DOMAIN run.toolsCalled[1].result
    /\ "gemini" \in StepsTaken =>
           /\ Len(run.toolsCalled) = 2
           /\ \A i \in 1..2 : "error" \notin DOMAIN run.toolsCalled[i].result
           /\ {"md", "ta"} \subseteq StepsTaken
           /\ RunReturned
           /\ ~(Did("gemini", "reply") /\ Did("gemini", "call failed"))
    /\ \A step \in {"md", "ta"} :
           /\ ~(Did(step, "quote") /\ Did(step, "quote failed"))
           /\ ~(Did(step, "historical") /\ Did(step, "historical failed"))
           /\ ~(Did(step, "lookup") /\ Did(step, "lookup failed"))
           /\ ~(Did(step, "write") /\ Did(step, "write failed"))

C21_Witness ==
    /\ RunReturned
    /\ Did("md", "quote") /\ Did("ta", "hit") /\ Did("gemini", "reply")
    /\ Len(run.toolsCalled) = 2

---------------------------------------------------------------------------
(* Indicators: properties *)

\* prices[i] - prices[i - 1] over the last `period` days.
LastDeltas(prices, period) ==
    {prices[i + 1] - prices[i] : i \in {k \in 1..(Len(prices) - 1) : k >= Len(prices) - period}}

StrictlyIncreasing(prices) == \A i \in 1..(Len(prices) - 1) : prices[i] < prices[i + 1]

StrictlyDecreasing(prices) == \A i \in 1..(Len(prices) - 1) : prices[i] > prices[i + 1]

\* C22: calculateRSI returns a value in 0..100: 50 for fewer than period + 1
\* samples, 100 when no loss occurs in the last `period` deltas (so for every
\* strictly increasing series longer than the period), and 0 for every
\* strictly decreasing series longer than the period.
C22_RSIRange ==
    Applied("calculateRSI") =>
        LET prices == probe.prices
            period == probe.period
            rsi == probe.out[1]
        IN  /\ rsi \in 0..10000
            /\ Len(prices) < period + 1 => rsi = 5000
            /\ (Len(prices) >= period + 1
                /\ \A d \in LastDeltas(prices, period) : d >= 0) => rsi = 10000
            /\ (Len(prices) > period /\ StrictlyIncreasing(prices)) => rsi = 10000
            /\ (Len(prices) > period /\ StrictlyDecreasing(prices)) => rsi = 0

C22_Witness ==
    /\ Applied("calculateRSI")
    /\ Len(probe.prices) > probe.period
    /\ StrictlyDecreasing(probe.prices)
    /\ probe.period = 14
    /\ probe.out[1] = 0

\* The mean of the last n prices, to the cent.
SMA(prices, n) ==
    LET lastPrices == [i \in 1..n |-> prices[Len(prices) - n + i]]
    IN  RoundDiv(SumSeq(lastPrices), n)

---------------------------------------------------------------------------
(* Analysis of a snapshot: properties *)

RSIZoneSignals == {"RSI oversold", "RSI overbought", "RSI neutral"}

\* C24: for every snapshot analyzeTechnicalSignals emits exactly one RSI-zone
\* signal (oversold below 30, overbought above 70, neutral otherwise), then
\* the MACD signal, then the price-vs-MA50 signal, then the golden or death
\* cross signal, and then, when the volume exceeds 1,000,000, the volume flag.
C24_SignalsInOrder ==
    Applied("analyzeTechnicalSignals") =>
        LET data == probe.data
            signals == probe.out[1]
            rsi == data.indicators.rsi
        IN  /\ Len(signals) = IF data.volume > 1000000 THEN 5 ELSE 4
            /\ signals[1] = IF rsi < 3000 THEN "RSI oversold"
                            ELSE IF rsi > 7000 THEN "RSI overbought"
                            ELSE "RSI neutral"
            /\ Cardinality({i \in DOMAIN signals : signals[i] \in RSIZoneSignals}) = 1
            /\ signals[2] \in {"MACD bullish crossover", "MACD bearish crossover"}
            /\ signals[3] \in {"Price above 50-day MA (bullish)",
                               "Price below 50-day MA (bearish)"}
            /\ signals[4] \in {"Golden cross", "Death cross"}
            /\ data.volume > 1000000 => signals[5] = "High volume"

\* The conditions identifyRiskFactors flags, for a snapshot with price > 0.
RiskConditions(data) ==
    LET price == data.current_price
        rsi == data.indicators.rsi
    IN  [range |-> (data.price_history.daily_high - data.price_history.daily_low) * 100
                       > 5 * price,
         overbought |-> rsi > 7500,
         oversold |-> rsi < 2500,
         nearHigh |-> price * 100 >= data.price_history.week_52_high * 95,
         nearLow |-> price * 100 <= data.price_history.week_52_low * 105]

\* C25: identifyRiskFactors never returns an empty list; it flags a day's
\* range above 5% of the price, an RSI above 75 or below 25 and a price within
\* 5% of the 52-week high or low, and it returns the one entry "Standard
\* market risk" exactly when none of these holds.
C25_RiskFactors ==
    Applied("identifyRiskFactors") =>
        LET risks == probe.out[1]
            flagged == {risks[i] : i \in DOMAIN risks}
            holds == RiskConditions(probe.data)
        IN  /\ Len(risks) >= 1
            /\ holds.range <=> "High intraday volatility" \in flagged
            /\ holds.overbought <=> "Extreme overbought" \in flagged
            /\ holds.oversold <=> "Extreme oversold" \in flagged
            /\ holds.nearHigh <=> "Near 52-week high" \in flagged
            /\ holds.nearLow <=> "Near 52-week low" \in flagged
            /\ risks = <<"Standard market risk">> <=>
                   ~(holds.range \/ holds.overbought \/ holds.oversold
                        \/ holds.nearHigh \/ holds.nearLow)

---------------------------------------------------------------------------
(* Agent run: termination *)

RunInProgress == run.pc \in {"md", "ta", "gemini"}

\* The run failed: no symbol, a tool invocation with an error, or a throw of
\* the reasoning-engine call.
RunFailed ==
    \/ run.symbol = << >>
    \/ \E i \in DOMAIN run.toolsCalled : "error" \in DOMAIN run.toolsCalled[i].result
    \/ Did("gemini", "call failed")

\* A run that has returned handed its caller one output, and a failed run
\* one with status ERROR and the error message.
ReturnsOutput ==
    RunReturned =>
        /\ Len(run.out) = 1
        /\ run.out[1].status \in {"COMPLETED", "PROPOSING", "ERROR"}
        /\ RunFailed <=> run.out[1].status = "ERROR"
        /\ run.out[1].status = "ERROR" => run.out[1].error # Null

---------------------------------------------------------------------------
(* Agent run: the snapshot behind the two tools *)

\* The analysis of analyzeTechnicalsTool, had it been given the fields
\* get_market_data returned in its result.
AnalysisOf(result) ==
    [technical_signals |-> analyzeTechnicalSignals(result),
     trend_analysis |-> determineTrend(result),
     sentiment |-> getBasicSentiment(result),
     risk_factors |-> identifyRiskFactors(result)]

\* Both tools of the run returned a result without error.
BothToolsReturned ==
    /\ Len(run.toolsCalled) = 2
    /\ \A i \in 1..2 : "error" \notin DOMAIN run.toolsCalled[i].result

\* C27: the reasoning comes from the snapshot the proposal's entry price
\* comes from: the analysis analyze_technicals returns is the analysis of the
\* snapshot get_market_data returned, whatever happens to the cache and the
\* source between the two steps.
C27_OneSnapshot ==
    BothToolsReturned =>
        run.toolsCalled[2].result = AnalysisOf(run.toolsCalled[1].result)

---------------------------------------------------------------------------
(* Market data cache: the mock fallback *)

\* The step is the return of a getMarketData call with mock data.
ReturnsMock ==
    /\ \E p \in Callers : call[p].pc # "idle" /\ call'[p].pc = "idle"
    /\ lastCall'.from = "mock"

\* No cache entry holds mock data, and no hit serves it.
NoMockCached ==
    /\ \A i \in DOMAIN cacheDocs :
          /\ "mock" \notin DOMAIN cacheDocs[i].data
          /\ "mock" \notin DOMAIN cacheDocs[i].written.raw_data
    /\ lastCall.from = "hit" => "mock" \notin DOMAIN lastCall.data[1].raw_data

---------------------------------------------------------------------------
(* parseAgentResponse: the quantity of a proposal *)

\* C29: every proposal parsed from a reply has a whole quantity of at least
\* 1, whatever the reply contains, as the orders table requires
\* (quantity > 0).
C29_QuantityAtLeastOne ==
    (Applied("parseAgentResponse") /\ probe.out[1].proposal # << >>) =>
        /\ probe.out[1].proposal[1].quantity \in Nat
        /\ probe.out[1].proposal[1].quantity >= 1

---------------------------------------------------------------------------
(* analyzeTechnicalSignals: the MACD signal *)

\* The indicators of the snapshot were computed by calculateMACD: it was
\* fetched, or served from the cache entry of a fetch.
ComputedIndicators(data) == "mock" \notin DOMAIN data.raw_data

====
